---- MODULE Spec2Model ----
(***************************************************************************)
(* Turn-based combat of Galaxy: Fractured Dawn (core/combat.py), with the  *)
(* module registry (core/modules.py) and the ship lookup (core/player.py)  *)
(* it reads.  One behaviour is one call of engage_pirates.                 *)
(*                                                                         *)
(* Numbers: the weakness multipliers (1.1, 0.9, 1.2, 1.0) and the critical *)
(* factor 1.8 are kept in tenths; int(d * m) is (d * tenths) \div 10,      *)
(* which equals Python's float result for every d in 0..400.               *)
(***************************************************************************)
EXTENDS Integers, Sequences, FiniteSets, TLC

VARIABLES
    pc,            \* position in engage_pirates
    turn,          \* turn counter (combat.py:80, 113)
    player,        \* the player dict: hull, armor, shields, ammo, credits
    enemy,         \* the enemy dict copied from the template
    ship_stats,    \* get_player_ship(player): power_grid, speed
    modules,       \* player["ship_modules"]
    saved,         \* the player record in the save file (save_player)
    emergency,     \* emergency_power: argument, roll and draw of a call examined on its own
    mission,       \* accept_mission: the combat contract being carried out
    cargo,         \* player["cargo"]: item -> quantity
    cargo_call,    \* add_cargo / remove_cargo: the last call and what it returned
    player_power,  \* local of engage_pirates
    player_ammo,   \* local of engage_pirates
    battle_log,    \* kinds of line logged in the current turn
    result,        \* return value of engage_pirates: "none" until it returns
    retreated,     \* whether a "[RETREATED]" entry was logged in this session
    idx,           \* perform_attack: position of the for loop in modules
    used_modules,  \* perform_attack: weapons attempted in this volley
    attack_roll,   \* perform_attack: d20 of the module just attempted
    sampled,       \* perform_attack: random.randint(base_min, base_max)
    damage,        \* perform_attack: damage after the critical factor
    applied,       \* perform_attack: int(damage * multiplier), before absorption
    shot,          \* perform_attack: the branch the module just attempted took
    enemy_roll,    \* enemy_attack: its d20
    enemy_damage   \* enemy_attack: damage after the critical factor, before absorption

vars == <<pc, turn, player, enemy, ship_stats, modules, saved, emergency,
          mission, cargo, cargo_call,
          player_power, player_ammo,
          battle_log, result, retreated, idx, used_modules, attack_roll, sampled, damage,
          applied, shot, enemy_roll, enemy_damage>>

-----------------------------------------------------------------------------
\* Bounds of the model

\* number of turns a session may run before the model stops following it
MaxTurn == 2

\* largest power grid emergency_power is called with when examined on its own
MaxPowerGrid == 150

-----------------------------------------------------------------------------
\* Arithmetic helpers

Min(a, b) == IF a <= b THEN a ELSE b

Max(a, b) == IF a >= b THEN a ELSE b

\* int(d * (tenths / 10)): truncation toward zero
int_mul(d, tenths) ==
    IF d * tenths >= 0 THEN (d * tenths) \div 10 ELSE -((-(d * tenths)) \div 10)

-----------------------------------------------------------------------------
\* Randomness (core/utils.py)

\* the faces of the d20 on either side of each threshold the code tests
\* (<= 2, <= 3, <= 5, >= 14, == 20)
DecisiveFaces == {2, 3, 4, 5, 6, 13, 14, 20}

\* roll_dice(sides): random.randint(1, sides), drawn from the decisive faces
roll_dice(sides) == DecisiveFaces \cap (1..sides)

\* random.randint(lo, hi), sampled at its ends and its middle
randint(lo, hi) == {lo, (lo + hi) \div 2, hi}

\* chance(percent): the outcomes of random.randint(1, 100) <= clamp(percent)
chance(percent) == {r <= Max(0, Min(percent, 100)) : r \in 1..100}

-----------------------------------------------------------------------------
\* Module registry (core/modules.py)

\* a variant of the weapon definitions that keeps one cost field only
Weapon_single_cost(dtype, lo, hi, ammo_use, power_use) ==
    [type |-> "weapon", damage_type |-> dtype, damage |-> <<lo, hi>>,
     ammo_use |-> ammo_use, power_use |-> IF ammo_use > 0 THEN 0 ELSE power_use,
     shield_bonus |-> 0, power_bonus |-> 0]

Weapon(dtype, lo, hi, ammo_use, power_use) ==
    [type |-> "weapon", damage_type |-> dtype, damage |-> <<lo, hi>>,
     ammo_use |-> ammo_use, power_use |-> power_use,
     shield_bonus |-> 0, power_bonus |-> 0]

Other(type, shield_bonus, power_bonus) ==
    [type |-> type, damage_type |-> "kinetic", damage |-> <<5, 10>>,
     ammo_use |-> 0, power_use |-> 0,
     shield_bonus |-> shield_bonus, power_bonus |-> power_bonus]

MODULES ==
    [n \in {"Pulse Laser", "Mass Driver", "Plasma Cannon", "Beam Lance",
            "Basic Mining Drill", "Shield Booster", "Reactor Upgrade"} |->
        CASE n = "Pulse Laser"        -> Weapon("energy", 12, 22, 0, 15)
          [] n = "Mass Driver"        -> Weapon("kinetic", 8, 16, 2, 5)
          [] n = "Plasma Cannon"      -> Weapon("blast", 16, 28, 3, 12)
          [] n = "Beam Lance"         -> Weapon("energy", 24, 38, 0, 20)
          [] n = "Basic Mining Drill" -> Other("mining", 0, 0)
          [] n = "Shield Booster"     -> Other("utility", 15, 0)
          [] n = "Reactor Upgrade"    -> Other("utility", 0, 10)]

\* a variant of the lookup in which an unknown name gives a default weapon
get_module_default_weapon(name) ==
    IF name \in DOMAIN MODULES THEN MODULES[name] ELSE Weapon("kinetic", 5, 10, 0, 0)

\* MODULES.get(name, {}): an unknown name gives a dict with no "type"
get_module(name) ==
    IF name \in DOMAIN MODULES THEN MODULES[name] ELSE Other("", 0, 0)

\* a variant of the test that lets every module the registry knows through
is_weapon_known(mod) == mod.type # ""

\* the test of the volley: mod and mod.get("type") == "weapon"
is_weapon(mod) == mod.type = "weapon"

-----------------------------------------------------------------------------
\* Ship lookup (core/player.py)

RECURSIVE SumBonus(_, _)
SumBonus(mods, field) ==
    IF mods = <<>> THEN 0
    ELSE LET m == get_module(Head(mods))
         IN  (IF m.type = "utility"
                 THEN (IF field = "shield" THEN m.shield_bonus ELSE m.power_bonus)
                 ELSE 0) + SumBonus(Tail(mods), field)

\* a variant that reads the bonuses without writing to the player dict
get_player_ship_pure(p, mods, ship_data) ==
    [ship   |-> [ship_data EXCEPT !.power_grid = @ + SumBonus(mods, "power")],
     player |-> p]

\* get_player_ship: the ship dict with power bonuses; shield bonuses are
\* added to the player's stored shields
get_player_ship(p, mods, ship_data) ==
    [ship   |-> [ship_data EXCEPT !.power_grid = @ + SumBonus(mods, "power")],
     player |-> [p EXCEPT !.shields = @ + SumBonus(mods, "shield")]]

-----------------------------------------------------------------------------
\* Enemy templates and sessions the model starts from

PIRATE_TEMPLATE ==
    [hull |-> 100, armor |-> 98, shields |-> 60,
     weakness |-> [kinetic |-> 11, energy |-> 9, blast |-> 12],
     damage_range |-> <<8, 18>>]

\* a weakened raider, with the same weaknesses and damage range
RaiderTemplate ==
    [PIRATE_TEMPLATE EXCEPT !.hull = 20, !.shields = 5]

\* a drone whose weakness map names only kinetic
DroneTemplate ==
    [hull |-> 30, armor |-> 10, shields |-> 0,
     weakness |-> [kinetic |-> 10],
     damage_range |-> <<6, 14>>]

StartCredits == 1000

NewPlayer ==
    [hull |-> 100, armor |-> 100, shields |-> 100, ammo |-> 50,
     credits |-> StartCredits]

\* new_player's ship_data: it has no "speed" key
StarterShip == [power_grid |-> 100]

Sessions ==
    { \* a pilot with a damaged ship against the default raider
      [player |-> [NewPlayer EXCEPT !.hull = 12, !.shields = 6], modules |-> <<"Pulse Laser", "Basic Mining Drill">>,
       ship_data |-> StarterShip, template |-> PIRATE_TEMPLATE],
      \* a damaged ship, nearly out of ammo, against a weakened raider
      [player |-> [NewPlayer EXCEPT !.hull = 10, !.shields = 0, !.ammo = 2],
       modules |-> <<"Plasma Cannon", "Mass Driver">>,
       ship_data |-> StarterShip, template |-> RaiderTemplate],
      \* a small reactor, a module unknown to the registry, two utility modules
      [player |-> [NewPlayer EXCEPT !.hull = 40, !.shields = 0, !.ammo = 0],
       modules |-> <<"Shield Booster", "Ghost Module", "Beam Lance", "Reactor Upgrade">>,
       ship_data |-> [power_grid |-> 20, speed |-> 8], template |-> DroneTemplate],
      \* no weapon installed, three reactor upgrades
      [player |-> [NewPlayer EXCEPT !.hull = 15, !.shields = 10, !.ammo = 0],
       modules |-> <<"Basic Mining Drill", "Reactor Upgrade", "Reactor Upgrade",
                     "Reactor Upgrade">>,
       ship_data |-> StarterShip, template |-> RaiderTemplate] }

\* no contract is being carried out; "calls" counts the calls of
\* get_player_ship, "destroyed" the engagements that ended with the enemy
\* down, "paid" the contract rewards credited
NoMission ==
    [enemies |-> 0, reward |-> 0, fought |-> 0, status |-> "none",
     accepted |-> 0, calls |-> 0, destroyed |-> 0, paid |-> 0]

\* new_player: "cargo": {}
EmptyHold == [item \in {} |-> 0]

\* no call of add_cargo or remove_cargo has been made
NoCargoCall == [op |-> "none", item |-> "none", qty |-> 0, ok |-> FALSE]

\* no call of emergency_power is under examination
NoCall == [power_grid |-> 0, roll |-> 0, amount |-> 0]

\* engage_pirates up to the combat loop, for the session s
StartSession(s) ==
    LET g == get_player_ship(s.player, s.modules, s.ship_data)
    IN  /\ pc = "loop"
        /\ turn = 1
        /\ player = g.player
        /\ enemy = s.template
        /\ ship_stats = g.ship
        /\ modules = s.modules
        /\ saved = s.player
        /\ emergency = NoCall
        /\ mission = NoMission
        /\ cargo = EmptyHold
        /\ cargo_call = NoCargoCall
        /\ player_power = g.ship.power_grid
        /\ player_ammo = s.player.ammo
        /\ battle_log = {}
        /\ result = "none"
        /\ retreated = FALSE
        /\ idx = 0
        /\ used_modules = 0
        /\ attack_roll = 0
        /\ sampled = 0
        /\ damage = 0
        /\ applied = 0
        /\ shot = "none"
        /\ enemy_roll = 0
        /\ enemy_damage = 0

Init == \E s \in Sessions : StartSession(s)

-----------------------------------------------------------------------------
\* perform_attack, one installed module per step

\* a variant of the lookup that takes every damage type as neutral
multiplier_neutral(e, dtype) == 10

\* enemy.get("weakness", {}).get(dtype, 1.0), in tenths
multiplier(e, dtype) ==
    IF dtype \in DOMAIN e.weakness THEN e.weakness[dtype] ELSE 10

\* a variant of the critical branch with the factor 1.5
raw_damage_weak_crit(roll, s) == IF roll = 20 THEN int_mul(s, 15) ELSE s

\* the critical branch: a roll of 20 multiplies the sample by 1.8
raw_damage(roll, s) == IF roll = 20 THEN int_mul(s, 18) ELSE s

\* a variant of the miss branch with the threshold off by one
misfired_below_two(roll) == roll # 20 /\ roll < 2

\* the miss branch, reached only when the roll is not 20
misfired(roll) == roll # 20 /\ roll <= 2

\* a variant of the resource checks that deducts without comparing
resource_check_unguarded(mod, power_grid, ammo) ==
    IF mod.ammo_use > 0
    THEN [fires |-> TRUE, power_grid |-> power_grid,
          ammo |-> ammo - mod.ammo_use, tag |-> {}]
    ELSE [fires |-> TRUE, power_grid |-> power_grid - mod.power_use,
          ammo |-> ammo, tag |-> {}]

\* a variant of the resource checks that looks at the power cost first
resource_check_power_first(mod, power_grid, ammo) ==
    IF mod.power_use > 0
    THEN IF power_grid < mod.power_use
         THEN [fires |-> FALSE, power_grid |-> power_grid, ammo |-> ammo,
               tag |-> {"insufficient_power"}]
         ELSE [fires |-> TRUE, power_grid |-> power_grid - mod.power_use,
               ammo |-> ammo, tag |-> {}]
    ELSE IF mod.ammo_use > 0
    THEN IF ammo < mod.ammo_use
         THEN [fires |-> FALSE, power_grid |-> power_grid, ammo |-> ammo,
               tag |-> {"insufficient_ammo"}]
         ELSE [fires |-> TRUE, power_grid |-> power_grid,
               ammo |-> ammo - mod.ammo_use, tag |-> {}]
    ELSE [fires |-> TRUE, power_grid |-> power_grid, ammo |-> ammo, tag |-> {}]

\* the resource checks: ammo first, else power
resource_check(mod, power_grid, ammo) ==
    IF mod.ammo_use > 0
    THEN IF ammo < mod.ammo_use
         THEN [fires |-> FALSE, power_grid |-> power_grid, ammo |-> ammo,
               tag |-> {"insufficient_ammo"}]
         ELSE [fires |-> TRUE, power_grid |-> power_grid,
               ammo |-> ammo - mod.ammo_use, tag |-> {}]
    ELSE IF mod.power_use > 0
    THEN IF power_grid < mod.power_use
         THEN [fires |-> FALSE, power_grid |-> power_grid, ammo |-> ammo,
               tag |-> {"insufficient_power"}]
         ELSE [fires |-> TRUE, power_grid |-> power_grid - mod.power_use,
               ammo |-> ammo, tag |-> {}]
    ELSE [fires |-> TRUE, power_grid |-> power_grid, ammo |-> ammo, tag |-> {}]

\* damage to the enemy: shields first, the rest to the hull
damage_enemy(e, dmg) ==
    LET to_shield == IF e.shields > 0 THEN Min(e.shields, dmg) ELSE 0
        rest      == dmg - to_shield
    IN  [e EXCEPT !.shields = @ - to_shield,
                  !.hull = IF rest > 0 THEN @ - rest ELSE @]

\* the lines the damage to the enemy logs
damage_enemy_log(e, dmg) ==
    LET to_shield == IF e.shields > 0 THEN Min(e.shields, dmg) ELSE 0
    IN  (IF e.shields > 0 THEN {"deals_to_shields"} ELSE {})
        \cup (IF dmg - to_shield > 0 THEN {"deals_to_hull"} ELSE {})

\* a variant of the for loop in which a failed resource check ends the volley
next_iteration_break(i, mods, branch) ==
    IF branch = "rejected" THEN Len(mods) + 1 ELSE i + 1

\* a variant of the for loop that stops once the enemy's hull is down
next_iteration_until_kill(i, mods, branch) ==
    IF enemy'.hull <= 0 THEN Len(mods) + 1 ELSE i + 1

\* the for loop over the installed modules: "continue" and the end of the
\* body both go on with the next module, whatever branch the module took
next_iteration(i, mods, branch) == i + 1

\* action "1": the volley starts
Attack ==
    /\ pc = "menu"
    /\ pc' = "volley"
    /\ idx' = 1
    /\ used_modules' = 0
    /\ UNCHANGED <<turn, player, enemy, ship_stats, modules, saved, emergency, mission, cargo, cargo_call, retreated, player_power,
                   player_ammo, battle_log, result, attack_roll, sampled, damage,
                   applied, shot, enemy_roll, enemy_damage>>

\* a module that is unknown or no weapon: continue
SkipModule ==
    /\ pc = "volley"
    /\ idx <= Len(modules)
    /\ ~is_weapon(get_module(modules[idx]))
    /\ UNCHANGED <<pc, turn, player, enemy, ship_stats, modules, saved, emergency, mission, cargo, cargo_call, retreated, player_power,
                   player_ammo, battle_log, result, used_modules, attack_roll,
                   sampled, damage, applied, shot, enemy_roll, enemy_damage>>
    /\ idx' = next_iteration(idx, modules, "skipped")

\* a weapon module: roll, sample, critical or miss, resource check, damage
FireWeapon ==
    /\ pc = "volley"
    /\ idx <= Len(modules)
    /\ is_weapon(get_module(modules[idx]))
    /\ LET mod == get_module(modules[idx])
       IN  \E r \in roll_dice(20), s \in randint(mod.damage[1], mod.damage[2]) :
             LET d   == raw_damage(r, s)
                 rc  == resource_check(mod, player_power, player_ammo)
                 a   == int_mul(d, multiplier(enemy, mod.damage_type))
             IN  /\ attack_roll' = r
                 /\ sampled' = s
                 /\ damage' = d
                 /\ used_modules' = used_modules + 1
                 /\ IF misfired(r)
                    THEN /\ battle_log' = battle_log \cup {"misfired"}
                         /\ applied' = 0
                         /\ shot' = "misfired"
                         /\ UNCHANGED <<player_power, player_ammo, enemy>>
                    ELSE IF ~rc.fires
                    THEN /\ battle_log' = battle_log \cup rc.tag
                                  \cup (IF r = 20 THEN {"crit"} ELSE {})
                         /\ applied' = 0
                         /\ shot' = "rejected"
                         /\ UNCHANGED <<player_power, player_ammo, enemy>>
                    ELSE /\ battle_log' = battle_log
                                  \cup (IF r = 20 THEN {"crit"} ELSE {})
                                  \cup damage_enemy_log(enemy, a)
                         /\ applied' = a
                         /\ shot' = "fired"
                         /\ player_power' = rc.power_grid
                         /\ player_ammo' = rc.ammo
                         /\ enemy' = damage_enemy(enemy, a)
                 /\ idx' = next_iteration(idx, modules, shot')
    /\ UNCHANGED <<pc, turn, player, ship_stats, modules, saved, emergency, mission, cargo, cargo_call, retreated, result, enemy_roll,
                   enemy_damage>>

\* after the for loop: the "no weapons" line, and back to engage_pirates
VolleyEnd ==
    /\ pc = "volley"
    /\ idx > Len(modules)
    /\ battle_log' = battle_log
            \cup (IF used_modules = 0 THEN {"no_weapons"} ELSE {})
    /\ pc' = "enemy_turn"
    /\ idx' = 0
    /\ used_modules' = 0
    /\ attack_roll' = 0
    /\ sampled' = 0
    /\ damage' = 0
    /\ applied' = 0
    /\ shot' = "none"
    /\ UNCHANGED <<turn, player, enemy, ship_stats, modules, saved, emergency, mission, cargo, cargo_call, retreated, player_power,
                   player_ammo, result, enemy_roll, enemy_damage>>

-----------------------------------------------------------------------------
\* The other player actions (handle_player_action)

\* a variant of the success branch without the ceiling
power_boosted_uncapped(power_grid, boost) == power_grid + boost

\* emergency_power, success branch: min(140, power_grid + boost)
power_boosted(power_grid, boost) == Min(140, power_grid + boost)

\* emergency_power, failure branch: max(0, power_grid - penalty)
power_overloaded(power_grid, penalty) == Max(0, power_grid - penalty)

\* a variant of emergency_power whose success branch needs a roll above 14
emergency_power_above(power_grid, roll, boost, penalty, systems_damaged) ==
    IF roll > 14
    THEN [log |-> "emergency_power", amount |-> boost,
          new_grid |-> power_boosted(power_grid, boost)]
    ELSE [log |-> IF systems_damaged THEN "overload_damaged" ELSE "overload",
          amount |-> penalty,
          new_grid |-> power_overloaded(power_grid, penalty)]

\* a variant of emergency_power whose "systems damaged" branch shuts the grid down
emergency_power_shutdown(power_grid, roll, boost, penalty, systems_damaged) ==
    IF roll >= 14
    THEN [log |-> "emergency_power", amount |-> boost,
          new_grid |-> power_boosted(power_grid, boost)]
    ELSE [log |-> IF systems_damaged THEN "overload_damaged" ELSE "overload",
          amount |-> penalty,
          new_grid |-> IF systems_damaged THEN 0
                       ELSE power_overloaded(power_grid, penalty)]

\* emergency_power(power_grid) for the given roll and random draws: the kind
\* of line it returns, the boost or penalty the line names, the new power grid
emergency_power(power_grid, roll, boost, penalty, systems_damaged) ==
    IF roll >= 14
    THEN [log |-> "emergency_power", amount |-> boost,
          new_grid |-> power_boosted(power_grid, boost)]
    ELSE [log |-> IF systems_damaged THEN "overload_damaged" ELSE "overload",
          amount |-> penalty,
          new_grid |-> power_overloaded(power_grid, penalty)]

\* action "2"
EmergencyPower ==
    /\ pc = "menu"
    /\ \E roll \in roll_dice(20), boost \in randint(12, 30),
          penalty \in randint(8, 25), systems_damaged \in chance(20) :
         LET r == emergency_power(player_power, roll, boost, penalty, systems_damaged)
         IN  /\ player_power' = r.new_grid
             /\ battle_log' = battle_log \cup {r.log}
    /\ pc' = "enemy_turn"
    /\ UNCHANGED <<turn, player, enemy, ship_stats, modules, saved, emergency, mission, cargo, cargo_call, retreated, player_ammo, result,
                   idx, used_modules, attack_roll, sampled, damage, applied, shot,
                   enemy_roll, enemy_damage>>

\* a variant of the scan that draws its energy from the power grid
Scan_powered ==
    /\ pc = "menu"
    /\ \E roll \in roll_dice(20) :
         battle_log' = battle_log \cup
             (IF roll <= 5 THEN {"scan_failed"} ELSE {"scan_results"})
    /\ player_power' = Max(0, player_power - 5)
    /\ pc' = "enemy_turn"
    /\ UNCHANGED <<turn, player, enemy, ship_stats, modules, saved, emergency, mission, cargo, cargo_call, retreated,
                   player_ammo, result, idx, used_modules, attack_roll, sampled,
                   damage, applied, shot, enemy_roll, enemy_damage>>

\* action "3": scan_enemy only logs
Scan ==
    /\ pc = "menu"
    /\ \E roll \in roll_dice(20) :
         battle_log' = battle_log \cup
             (IF roll <= 5 THEN {"scan_failed"} ELSE {"scan_results"})
    /\ pc' = "enemy_turn"
    /\ UNCHANGED <<turn, player, enemy, ship_stats, modules, saved, emergency, mission, cargo, cargo_call, retreated, player_power,
                   player_ammo, result, idx, used_modules, attack_roll, sampled,
                   damage, applied, shot, enemy_roll, enemy_damage>>

\* what a successful retreat does: it logs the "[RETREATED]" entry and
\* returns to the combat loop like every other action
retreat_success ==
    /\ battle_log' = battle_log \cup {"retreat_attempt", "[RETREATED]"}
    /\ retreated' = TRUE
    /\ pc' = "enemy_turn"
    /\ UNCHANGED <<result, player>>

\* a variant in which a failed retreat takes the enemy's turn as well
retreat_failure_evades ==
    /\ battle_log' = battle_log \cup {"retreat_attempt", "retreat_failed"}
    /\ pc' = "regen"
    /\ UNCHANGED <<result, player, retreated>>

\* what a failed retreat does: it logs the failure and returns to the loop
retreat_failure ==
    /\ battle_log' = battle_log \cup {"retreat_attempt", "retreat_failed"}
    /\ pc' = "enemy_turn"
    /\ UNCHANGED <<result, player, retreated>>

\* action "4"
Retreat ==
    /\ pc = "menu"
    /\ \E escaped \in chance(50) :
         IF escaped THEN retreat_success ELSE retreat_failure
    /\ UNCHANGED <<turn, enemy, ship_stats, modules, saved, emergency, mission, cargo,
                   cargo_call, player_power,
                   player_ammo, idx, used_modules, attack_roll, sampled,
                   damage, applied, shot, enemy_roll, enemy_damage>>

\* a variant in which a skipped turn is skipped by the enemy as well
SkipTurn_unanswered ==
    /\ pc = "menu"
    /\ battle_log' = battle_log \cup {"turn_skipped"}
    /\ pc' = "regen"
    /\ UNCHANGED <<turn, player, enemy, ship_stats, modules, saved, emergency, mission, cargo, cargo_call, retreated,
                   player_power, player_ammo, result, idx, used_modules, attack_roll,
                   sampled, damage, applied, shot, enemy_roll, enemy_damage>>

\* any other input
SkipTurn ==
    /\ pc = "menu"
    /\ battle_log' = battle_log \cup {"turn_skipped"}
    /\ pc' = "enemy_turn"
    /\ UNCHANGED <<turn, player, enemy, ship_stats, modules, saved, emergency, mission, cargo, cargo_call, retreated, player_power,
                   player_ammo, result, idx, used_modules, attack_roll, sampled,
                   damage, applied, shot, enemy_roll, enemy_damage>>

-----------------------------------------------------------------------------
\* enemy_attack

\* a variant of the enemy's miss threshold that is off by one
enemy_missed_below_three(roll) == roll < 3

\* the enemy's miss threshold
enemy_missed(roll) == roll <= 3

\* a variant of the enemy's damage with a multiplier of 1.1 on every hit
enemy_raw_damage_weighted(roll, s) ==
    int_mul(IF roll = 20 THEN int_mul(s, 18) ELSE s, 11)

\* the enemy's damage: a roll of 20 multiplies the sample by 1.8
enemy_raw_damage(roll, s) == IF roll = 20 THEN int_mul(s, 18) ELSE s

\* a variant in which the hull takes the whole damage, not what the shields let through
damage_player_full_hull(p, dmg) ==
    LET absorbed == IF p.shields > 0 THEN Min(p.shields, dmg) ELSE 0
    IN  [p EXCEPT !.shields = @ - absorbed,
                  !.hull = IF dmg > 0 THEN Max(0, @ - dmg) ELSE @]

\* a variant in which the armor wears down with every hit on the hull
damage_player_wears_armor(p, dmg) ==
    LET absorbed == IF p.shields > 0 THEN Min(p.shields, dmg) ELSE 0
        rest     == dmg - absorbed
    IN  [p EXCEPT !.shields = @ - absorbed,
                  !.hull = IF rest > 0 THEN Max(0, @ - rest) ELSE @,
                  !.armor = IF rest > 0 THEN Max(0, @ - 1) ELSE @]

\* a variant without the clamp of the hull at 0
damage_player_unclamped(p, dmg) ==
    LET absorbed == IF p.shields > 0 THEN Min(p.shields, dmg) ELSE 0
        rest     == dmg - absorbed
    IN  [p EXCEPT !.shields = @ - absorbed,
                  !.hull = IF rest > 0 THEN @ - rest ELSE @]

\* a variant in which the hull is clamped at 1, so that the player survives
damage_player_hull_survives(p, dmg) ==
    LET absorbed == IF p.shields > 0 THEN Min(p.shields, dmg) ELSE 0
        rest     == dmg - absorbed
    IN  [p EXCEPT !.shields = @ - absorbed,
                  !.hull = IF rest > 0 THEN Max(1, @ - rest) ELSE @]

\* damage to the player: shields first, the rest to the hull, clamped at 0
damage_player(p, dmg) ==
    LET absorbed == IF p.shields > 0 THEN Min(p.shields, dmg) ELSE 0
        rest     == dmg - absorbed
    IN  [p EXCEPT !.shields = @ - absorbed,
                  !.hull = IF rest > 0 THEN Max(0, @ - rest) ELSE @]

\* the lines the damage to the player logs
damage_player_log(p, dmg) ==
    LET absorbed == IF p.shields > 0 THEN Min(p.shields, dmg) ELSE 0
    IN  (IF p.shields > 0 THEN {"dealt_to_shields"} ELSE {})
        \cup (IF dmg - absorbed > 0 THEN {"dealt_to_hull"} ELSE {})

\* a variant in which the enemy attacks whether or not it is alive
enemy_acts_always == TRUE

\* a variant in which the test before the enemy's turn looks at the player's hull
enemy_acts_on_survivor == player.hull > 0

\* "if enemy['hull'] > 0" before the enemy's turn
enemy_acts == enemy.hull > 0

EnemyAttack ==
    /\ pc = "enemy_turn"
    /\ enemy_acts
    /\ \E roll \in roll_dice(20),
          s \in randint(enemy.damage_range[1], enemy.damage_range[2]) :
         /\ enemy_roll' = roll
         /\ IF enemy_missed(roll)
            THEN /\ enemy_damage' = 0
                 /\ battle_log' = battle_log \cup {"enemy_missed"}
                 /\ UNCHANGED player
            ELSE LET d == enemy_raw_damage(roll, s)
                 IN  /\ enemy_damage' = d
                     /\ battle_log' = battle_log
                            \cup (IF roll = 20 THEN {"enemy_crit"} ELSE {})
                            \cup damage_player_log(player, d)
                     /\ player' = damage_player(player, d)
    /\ pc' = "regen"
    /\ UNCHANGED <<turn, enemy, ship_stats, modules, saved, emergency, mission, cargo, cargo_call, retreated, player_power, player_ammo,
                   result, idx, used_modules, attack_roll, sampled, damage, applied, shot>>

\* the enemy is already destroyed: no attack this turn
EnemySkipped ==
    /\ pc = "enemy_turn"
    /\ ~enemy_acts
    /\ pc' = "regen"
    /\ UNCHANGED <<turn, player, enemy, ship_stats, modules, saved, emergency, mission, cargo, cargo_call, retreated, player_power,
                   player_ammo, battle_log, result, idx, used_modules, attack_roll,
                   sampled, damage, applied, shot, enemy_roll, enemy_damage>>

-----------------------------------------------------------------------------
\* engage_pirates: the loop and the resolution

\* ship_stats.get("speed", 5)
ship_speed(ship) == IF "speed" \in DOMAIN ship THEN ship.speed ELSE 5

\* a variant of the regeneration that is not clamped to the ship's power grid
regen_power_unclamped(power_grid, ship) ==
    power_grid + Max(3, ship_speed(ship) \div 2)

\* end-of-turn power regeneration
regen_power(power_grid, ship) ==
    Min(power_grid + Max(3, ship_speed(ship) \div 2), ship.power_grid)

\* end of the turn: regeneration (in every turn; the code puts no condition
\* on it), the log is printed and cleared, turn += 1
EndOfTurnAt(next_turn, scavenge) ==
    /\ pc = "regen"
    /\ player_power' = regen_power(player_power, ship_stats)
    /\ \E scavenged \in scavenge :
         player_ammo' = IF scavenged THEN player_ammo + 1 ELSE player_ammo
    /\ battle_log' = {}
    /\ enemy_roll' = 0
    /\ enemy_damage' = 0
    /\ turn' = next_turn
    /\ pc' = "loop"
    /\ UNCHANGED <<player, enemy, ship_stats, modules, saved, emergency, mission, cargo, cargo_call, retreated, result, idx,
                   used_modules, attack_roll, sampled, damage, applied, shot>>

EndOfTurn == EndOfTurnAt(turn + 1, chance(5))

\* a variant of the while condition with "or" in place of "and"
loop_continues_either == enemy.hull > 0 \/ player.hull > 0

\* the while condition
loop_continues == enemy.hull > 0 /\ player.hull > 0

\* a turn begins: the status lines, then combat_menu waits for the action
TurnBeginWithin(within) ==
    /\ pc = "loop"
    /\ loop_continues
    /\ within
    /\ pc' = "menu"
    /\ UNCHANGED <<turn, player, enemy, ship_stats, modules, saved, emergency, mission, cargo, cargo_call, retreated, player_power,
                   player_ammo, battle_log, result, idx, used_modules, attack_roll,
                   sampled, damage, applied, shot, enemy_roll, enemy_damage>>

TurnBegin == TurnBeginWithin(turn <= MaxTurn)

\* save_player(player): the whole player dict goes to the save file
save_player(p) == p

\* the salvage reward on victory
salvage == randint(150, 400)

\* the branch of the resolution: destroyed when player["hull"] <= 0
player_destroyed == player.hull <= 0

\* combat resolution after the loop
Resolution ==
    /\ pc = "loop"
    /\ ~loop_continues
    /\ IF player_destroyed
       THEN /\ result' = "False"
            /\ UNCHANGED player
       ELSE /\ result' = "True"
            /\ \E reward \in salvage :
                 player' = [player EXCEPT !.credits = @ + reward]
    /\ saved' = save_player(player')
    /\ pc' = "done"
    /\ UNCHANGED <<turn, enemy, ship_stats, modules, emergency, mission, cargo, cargo_call, retreated, player_power, player_ammo,
                   battle_log, idx, used_modules, attack_roll, sampled, damage,
                   applied, shot, enemy_roll, enemy_damage>>

\* the outcome a return value stands for
Outcome ==
    CASE result = "True"  -> "Victory"
      [] result = "False" -> "Defeat"
      [] OTHER            -> "Active"

Next ==
    \/ TurnBegin
    \/ Attack
    \/ SkipModule
    \/ FireWeapon
    \/ VolleyEnd
    \/ EmergencyPower
    \/ Scan
    \/ Retreat
    \/ SkipTurn
    \/ EnemyAttack
    \/ EnemySkipped
    \/ EndOfTurn
    \/ Resolution

Spec == Init /\ [][Next]_vars

-----------------------------------------------------------------------------
\* emergency_power on its own: one call with any power grid in
\* 0..MaxPowerGrid, every face of the d20 and every value of the two
\* random.randint draws

InitEmergency ==
    /\ pc = "emergency_power"
    /\ player_power \in 0..MaxPowerGrid
    /\ emergency = NoCall
    /\ mission = NoMission
    /\ cargo = EmptyHold
    /\ cargo_call = NoCargoCall
    /\ battle_log = {}
    /\ turn = 1
    /\ player = NewPlayer
    /\ saved = NewPlayer
    /\ enemy = PIRATE_TEMPLATE
    /\ ship_stats = StarterShip
    /\ modules = <<>>
    /\ player_ammo = NewPlayer.ammo
    /\ result = "none"
    /\ retreated = FALSE
    /\ idx = 0
    /\ used_modules = 0
    /\ attack_roll = 0
    /\ sampled = 0
    /\ damage = 0
    /\ applied = 0
    /\ shot = "none"
    /\ enemy_roll = 0
    /\ enemy_damage = 0

\* new_grid = emergency_power(power_grid), as handle_player_action calls it
EmergencyCall ==
    /\ pc = "emergency_power"
    /\ \E roll \in 1..20, boost \in 12..30, penalty \in 8..25,
          systems_damaged \in BOOLEAN :
         LET r == emergency_power(player_power, roll, boost, penalty, systems_damaged)
         IN  /\ player_power' = r.new_grid
             /\ battle_log' = {r.log}
             /\ emergency' = [power_grid |-> player_power, roll |-> roll,
                               amount |-> r.amount]
    /\ pc' = "returned"
    /\ UNCHANGED <<turn, player, saved, enemy, ship_stats, modules, player_ammo,
                   mission, cargo, cargo_call, result, retreated, idx, used_modules, attack_roll, sampled,
                   damage, applied, shot, enemy_roll, enemy_damage>>

NextEmergency == EmergencyCall

SpecEmergency == InitEmergency /\ [][NextEmergency]_vars

-----------------------------------------------------------------------------
\* Sessions of any length: the while loop runs for as many turns as the
\* rolls allow. The turn number is only printed by the code, so it is counted
\* up to TurnCap and kept there; ammo is scavenged up to AmmoCap.

TurnCap == 3
AmmoCap == 4

LongSessions ==
    { \* two weapons that both fire, a mining drill between them; the ship
      \* is fast enough to refill its small power grid every turn
      [player |-> [NewPlayer EXCEPT !.hull = 10, !.shields = 0, !.ammo = 4],
       modules |-> <<"Mass Driver", "Basic Mining Drill", "Mass Driver">>,
       ship_data |-> [power_grid |-> 10, speed |-> 20], template |-> RaiderTemplate],
      \* no weapon installed: the enemy is never damaged
      [player |-> [NewPlayer EXCEPT !.hull = 15, !.shields = 10, !.ammo = 0],
       modules |-> <<"Basic Mining Drill">>,
       ship_data |-> [power_grid |-> 5, speed |-> 10], template |-> RaiderTemplate] }

InitUnbounded == \E s \in LongSessions : StartSession(s)

\* "while player['hull'] > 0 and enemy['hull'] > 0" with no limit on the turns
TurnBeginAnyTurn == TurnBeginWithin(TRUE)

\* "turn += 1", counted up to TurnCap
EndOfTurnCounted ==
    EndOfTurnAt(Min(turn + 1, TurnCap),
                IF player_ammo < AmmoCap THEN chance(5) ELSE {FALSE})

NextUnbounded ==
    \/ TurnBeginAnyTurn
    \/ Attack
    \/ SkipModule
    \/ FireWeapon
    \/ VolleyEnd
    \/ EmergencyPower
    \/ Scan
    \/ Retreat
    \/ SkipTurn
    \/ EnemyAttack
    \/ EnemySkipped
    \/ EndOfTurnCounted
    \/ Resolution

\* the enemy's attack rolls above 3 (a hit)
EnemyHits == EnemyAttack /\ enemy_roll' > 3

\* the session keeps running while it can, and of the enemy's attacks
\* infinitely many roll above 3
SpecFair ==
    /\ InitUnbounded
    /\ [][NextUnbounded]_vars
    /\ WF_vars(NextUnbounded)
    /\ SF_vars(EnemyHits)

-----------------------------------------------------------------------------
\* Combat contracts (core/missions.py): accept_mission runs one engagement
\* after another. An engagement is one step here: what engage_pirates does to
\* the player record from its set-up to its return.

\* contracts a pilot may accept one after another
MaxContracts == 1

Pilots ==
    { [player |-> [NewPlayer EXCEPT !.hull = 3, !.shields = 0],
       modules |-> <<"Shield Booster", "Pulse Laser">>],
      [player |-> [NewPlayer EXCEPT !.hull = 2],
       modules |-> <<"Shield Booster", "Reactor Upgrade", "Shield Booster">>],
      [player |-> [NewPlayer EXCEPT !.hull = 2, !.shields = 4],
       modules |-> <<"Mass Driver">>] }

\* _make_combat: n = random.choice([1, 1, 2]), reward = random.randint(300, 2000) * n
make_combat ==
    { [enemies |-> n, reward |-> r * n] : n \in {1, 2}, r \in randint(300, 2000) }

\* the combat loop and the resolution of engage_pirates as a relation between
\* the record after the set-up (g) and the record the call leaves: the loop
\* only lowers shields and hull, the hull not below 0 and only once the
\* shields are gone; it ends with exactly one hull at or below 0; ammo and
\* armor are not written; salvage is credited when the player survived
session_outcome(g, after, enemy_hull, returned) ==
    /\ after.armor = g.armor
    /\ after.ammo = g.ammo
    /\ after.shields \in 0..g.shields
    /\ IF g.hull <= 0 THEN after.hull = g.hull /\ after.shields = g.shields
                      ELSE after.hull \in 0..g.hull
    /\ after.hull < g.hull => after.shields = 0
    /\ (after.hull <= 0) # (enemy_hull <= 0)
    /\ returned = (after.hull > 0)
    /\ IF returned THEN after.credits - g.credits \in 150..400
                   ELSE after.credits = g.credits

InitContract ==
    \E s \in Pilots :
        /\ pc = "board"
        /\ turn = 0
        /\ player = s.player
        /\ saved = s.player
        /\ modules = s.modules
        /\ mission = NoMission
        /\ enemy = PIRATE_TEMPLATE
        /\ ship_stats = StarterShip
        /\ emergency = NoCall
        /\ cargo = EmptyHold
        /\ cargo_call = NoCargoCall
        /\ player_power = 0
        /\ player_ammo = 0
        /\ battle_log = {}
        /\ result = "none"
        /\ retreated = FALSE
        /\ idx = 0
        /\ used_modules = 0
        /\ attack_roll = 0
        /\ sampled = 0
        /\ damage = 0
        /\ applied = 0
        /\ shot = "none"
        /\ enemy_roll = 0
        /\ enemy_damage = 0

\* accept_mission up to the combat branch: the contract is looked up and
\* get_player_ship(player) is called for the cargo capacity
AcceptMission ==
    /\ pc = "board"
    /\ mission.accepted < MaxContracts
    /\ \E m \in make_combat :
         mission' = [mission EXCEPT !.enemies = m.enemies, !.reward = m.reward,
                                    !.fought = 0, !.destroyed = 0,
                                    !.status = "running",
                                    !.accepted = @ + 1, !.calls = @ + 1]
    /\ player' = get_player_ship(player, modules, StarterShip).player
    /\ pc' = "contract"
    /\ UNCHANGED <<turn, enemy, ship_stats, modules, saved, emergency, cargo, cargo_call,
                   retreated, player_power, player_ammo, battle_log, result, idx,
                   used_modules, attack_roll, sampled, damage, applied, shot,
                   enemy_roll, enemy_damage>>

\* a variant of the loop without the break
contract_breaks_never(p) == FALSE

\* "if player.get('hull', 0) <= 0: success = False; break"
contract_breaks(p) == p.hull <= 0

\* one pass of "for _ in range(enemies)" begins: engage_pirates(player) is
\* called and its set-up calls get_player_ship(player)
EngagePirates ==
    /\ pc = "contract"
    /\ mission.fought < mission.enemies
    /\ player' = get_player_ship(player, modules, StarterShip).player
    /\ enemy' = PIRATE_TEMPLATE
    /\ mission' = [mission EXCEPT !.calls = @ + 1]
    /\ pc' = "engaged"
    /\ UNCHANGED <<turn, ship_stats, modules, saved, emergency, cargo, cargo_call,
                   retreated, player_power, player_ammo, battle_log, result, idx,
                   used_modules, attack_roll, sampled, damage, applied, shot,
                   enemy_roll, enemy_damage>>

\* the combat loop and the resolution of that call, then the test of
\* player["hull"] that breaks out of the for loop
EngagementOver ==
    /\ pc = "engaged"
    /\ \E hull \in (0..Max(player.hull, 0)) \cup {player.hull},
          shields \in randint(0, player.shields),
          down \in BOOLEAN,
          found \in salvage :
         LET returned   == hull > 0
             enemy_hull == IF down THEN -1 ELSE PIRATE_TEMPLATE.hull
             after == [player EXCEPT !.hull = hull, !.shields = shields,
                                     !.credits = @ + (IF returned THEN found ELSE 0)]
         IN  /\ session_outcome(player, after, enemy_hull, returned)
             /\ player' = after
             /\ saved' = save_player(after)
             /\ enemy' = [PIRATE_TEMPLATE EXCEPT !.hull = enemy_hull]
             /\ result' = IF returned THEN "True" ELSE "False"
             /\ mission' = [mission EXCEPT
                    !.fought = @ + 1,
                    !.destroyed = @ + (IF enemy_hull <= 0 THEN 1 ELSE 0)]
             /\ pc' = IF contract_breaks(after) THEN "lost" ELSE "contract"
    /\ UNCHANGED <<turn, ship_stats, modules, emergency, cargo, cargo_call, retreated,
                   player_power, player_ammo, battle_log, idx, used_modules,
                   attack_roll, sampled, damage, applied, shot, enemy_roll,
                   enemy_damage>>

\* "if success": the contract goes to the completed list and the reward is credited
CompleteContract ==
    /\ pc = "contract"
    /\ mission.fought = mission.enemies
    /\ mission' = [mission EXCEPT !.status = "completed", !.paid = @ + mission.reward]
    /\ player' = [player EXCEPT !.credits = @ + mission.reward]
    /\ saved' = save_player(player')
    /\ pc' = "board"
    /\ UNCHANGED <<turn, enemy, ship_stats, modules, emergency, cargo, cargo_call,
                   retreated, player_power, player_ammo, battle_log, result, idx,
                   used_modules, attack_roll, sampled, damage, applied, shot,
                   enemy_roll, enemy_damage>>

\* "else": the contract failed, nothing is credited
FailContract ==
    /\ pc = "lost"
    /\ mission' = [mission EXCEPT !.status = "failed"]
    /\ pc' = "board"
    /\ UNCHANGED <<turn, player, saved, enemy, ship_stats, modules, emergency, cargo,
                   cargo_call, retreated, player_power, player_ammo, battle_log,
                   result, idx, used_modules, attack_roll, sampled, damage, applied,
                   shot, enemy_roll, enemy_damage>>

NextContract ==
    \/ AcceptMission
    \/ EngagePirates
    \/ EngagementOver
    \/ CompleteContract
    \/ FailContract

SpecContract == InitContract /\ [][NextContract]_vars

\* the relation the contract uses for a session holds of every session of the
\* step-by-step model: of the record before the set-up (still in the save
\* file when the loop ends) and the record the resolution leaves
SessionOutcomeHolds ==
    [][(pc = "loop" /\ pc' = "done")
         => session_outcome(get_player_ship(saved, modules, ship_stats).player,
                            player', enemy.hull, result' = "True")]_vars

-----------------------------------------------------------------------------
\* The cargo hold (core/player.py): add_cargo and remove_cargo called in any
\* order on a player whose module list does not change

\* largest quantity of one call
MaxQty == 3

Items == {"ore", "fuel"}

\* ship_data and ship_modules of the players whose hold is followed
Holds ==
    { \* no "cargo_capacity" key: the default of 50
      [ship_data |-> StarterShip, modules |-> <<"Pulse Laser">>],
      \* a small hold with a Cargo Pod
      [ship_data |-> [power_grid |-> 100, cargo_capacity |-> 2],
       modules |-> <<"Cargo Pod", "Shield Booster">>],
      \* a hold of 3, and a module the registry does not know
      [ship_data |-> [power_grid |-> 100, cargo_capacity |-> 3],
       modules |-> <<"Ghost Module">>] }

\* effect.cargo_bonus of the utility modules (Cargo Pod, Medium Cargo Bay)
cargo_bonus(name) ==
    CASE name = "Cargo Pod"        -> 25
      [] name = "Medium Cargo Bay" -> 60
      [] OTHER                     -> 0

RECURSIVE get_cargo_capacity(_, _)
\* get_cargo_capacity: the ship's cargo_capacity (50 when the key is missing)
\* plus the cargo_bonus of every installed module
get_cargo_capacity(ship_data, mods) ==
    IF mods = <<>>
    THEN (IF "cargo_capacity" \in DOMAIN ship_data THEN ship_data.cargo_capacity ELSE 50)
    ELSE cargo_bonus(Head(mods)) + get_cargo_capacity(ship_data, Tail(mods))

RECURSIVE sum_values(_)
\* sum(player["cargo"].values())
sum_values(c) ==
    IF DOMAIN c = {} THEN 0
    ELSE LET i == CHOOSE k \in DOMAIN c : TRUE
         IN  c[i] + sum_values([k \in DOMAIN c \ {i} |-> c[k]])

\* player["cargo"].get(item, 0)
held(c, item) == IF item \in DOMAIN c THEN c[item] ELSE 0

\* a variant of add_cargo that compares the item's own quantity with the capacity
add_cargo_counts_item(c, cap, item, qty) ==
    IF held(c, item) + qty > cap
    THEN [cargo |-> c, ok |-> FALSE]
    ELSE [cargo |-> [k \in DOMAIN c \cup {item} |->
                        IF k = item THEN held(c, item) + qty ELSE c[k]],
          ok |-> TRUE]

\* add_cargo: refused when the total would exceed the capacity
add_cargo(c, cap, item, qty) ==
    IF sum_values(c) + qty > cap
    THEN [cargo |-> c, ok |-> FALSE]
    ELSE [cargo |-> [k \in DOMAIN c \cup {item} |->
                        IF k = item THEN held(c, item) + qty ELSE c[k]],
          ok |-> TRUE]

\* remove_cargo: refused when less than qty is held; an item that reaches 0
\* is deleted
remove_cargo(c, item, qty) ==
    IF held(c, item) < qty
    THEN [cargo |-> c, ok |-> FALSE]
    ELSE IF c[item] - qty <= 0
    THEN [cargo |-> [k \in DOMAIN c \ {item} |-> c[k]], ok |-> TRUE]
    ELSE [cargo |-> [c EXCEPT ![item] = @ - qty], ok |-> TRUE]

InitCargo ==
    \E s \in Holds :
        /\ pc = "hold"
        /\ turn = 0
        /\ player = NewPlayer
        /\ saved = NewPlayer
        /\ modules = s.modules
        /\ ship_stats = s.ship_data
        /\ mission = NoMission
        /\ enemy = PIRATE_TEMPLATE
        /\ emergency = NoCall
        /\ cargo = EmptyHold
        /\ cargo_call = NoCargoCall
        /\ player_power = 0
        /\ player_ammo = 0
        /\ battle_log = {}
        /\ result = "none"
        /\ retreated = FALSE
        /\ idx = 0
        /\ used_modules = 0
        /\ attack_roll = 0
        /\ sampled = 0
        /\ damage = 0
        /\ applied = 0
        /\ shot = "none"
        /\ enemy_roll = 0
        /\ enemy_damage = 0

AddCargo ==
    /\ pc = "hold"
    /\ \E item \in Items, qty \in 1..MaxQty :
         LET r == add_cargo(cargo, get_cargo_capacity(ship_stats, modules), item, qty)
         IN  /\ cargo' = r.cargo
             /\ cargo_call' = [op |-> "add_cargo", item |-> item, qty |-> qty,
                               ok |-> r.ok]
    /\ UNCHANGED <<pc, turn, player, saved, enemy, ship_stats, modules, emergency,
                   mission, retreated, player_power, player_ammo, battle_log, result,
                   idx, used_modules, attack_roll, sampled, damage, applied, shot,
                   enemy_roll, enemy_damage>>

RemoveCargo ==
    /\ pc = "hold"
    /\ \E item \in Items, qty \in 1..MaxQty :
         LET r == remove_cargo(cargo, item, qty)
         IN  /\ cargo' = r.cargo
             /\ cargo_call' = [op |-> "remove_cargo", item |-> item, qty |-> qty,
                               ok |-> r.ok]
    /\ UNCHANGED <<pc, turn, player, saved, enemy, ship_stats, modules, emergency,
                   mission, retreated, player_power, player_ammo, battle_log, result,
                   idx, used_modules, attack_roll, sampled, damage, applied, shot,
                   enemy_roll, enemy_damage>>

NextCargo ==
    \/ AddCargo
    \/ RemoveCargo

SpecCargo == InitCargo /\ [][NextCargo]_vars

-----------------------------------------------------------------------------
\* Steps and conditions the properties below speak of

\* a weapon module is attempted (one iteration of the volley that rolls)
WeaponStep == pc = "volley" /\ used_modules' = used_modules + 1

\* the module the volley is about to attempt
NextModule == get_module(modules[idx])

\* the enemy attack routine runs
EnemyAttackStep == pc = "enemy_turn" /\ enemy_roll' # 0

\* the end-of-turn step
RegenStep == pc = "regen" /\ pc' = "loop"

\* a successful retreat was logged in the current turn
RetreatLogged == "[RETREATED]" \in battle_log

\* the player's hull and shields are the same after the step
PlayerUntouched == player'.hull = player.hull /\ player'.shields = player.shields

-----------------------------------------------------------------------------
\* C1: once a retreat has succeeded no further turn begins, no salvage is
\* credited, and the session ends with the outcome Retreated.
C1_RetreatEndsSession ==
    retreated =>
        /\ pc \notin {"menu", "volley"}
        /\ player.credits = StartCredits
        /\ (pc = "done" => Outcome = "Retreated")

\* C2: in the turn in which a retreat succeeded the enemy does not attack:
\* the player's hull and shields stay as they were.
C2_NoAttackAfterRetreat ==
    [][RetreatLogged => PlayerUntouched]_vars

\* C3: once the enemy's hull is <= 0 the enemy does not attack (the player's
\* hull and shields no longer change), no later turn begins, and the session
\* returns Victory.
C3_VictorySkipsEnemy ==
    [][enemy.hull <= 0 =>
          /\ PlayerUntouched
          /\ pc' # "menu"
          /\ (pc' = "done" => Outcome' = "Victory")]_vars

\* C3: the enemy's turn was passed over with the enemy destroyed
C3_Witness == pc = "regen" /\ enemy.hull <= 0 /\ enemy_roll = 0

\* C4: once the player's hull is <= 0 there is no further player action and
\* no further enemy attack, the session returns Defeat, and no reward is
\* credited.
C4_DefeatIsFinal ==
    player.hull <= 0 =>
        /\ pc \in {"regen", "loop", "done"}
        /\ (pc = "done" => Outcome = "Defeat" /\ player.credits = StartCredits)

\* C4: the session has returned with the player destroyed
C4_Witness == pc = "done" /\ player.hull <= 0

\* C5 as stated: for both targets shields' = max(0, shields - d) and
\* hull' = hull - max(0, d - shields).
C5_SameMitigation ==
    [][/\ WeaponStep =>
            /\ enemy'.shields = Max(0, enemy.shields - applied')
            /\ enemy'.hull = enemy.hull - Max(0, applied' - enemy.shields)
       /\ EnemyAttackStep =>
            /\ player'.shields = Max(0, player.shields - enemy_damage')
            /\ player'.hull = player.hull - Max(0, enemy_damage' - player.shields)]_vars

\* C5 as amended: shields' = max(0, shields - d) for both targets and shields
\* are never negative; the enemy's hull' = hull - max(0, d - shields); the
\* player's hull' = max(0, hull - max(0, d - shields)), which is the enemy's
\* rule with the hull clamped at 0.
C5_MitigationClamped ==
    /\ [](enemy.shields >= 0 /\ player.shields >= 0)
    /\ [][/\ WeaponStep =>
               /\ enemy'.shields = Max(0, enemy.shields - applied')
               /\ enemy'.hull = enemy.hull - Max(0, applied' - enemy.shields)
          /\ EnemyAttackStep =>
               /\ player'.shields = Max(0, player.shields - enemy_damage')
               /\ player'.hull =
                     Max(0, player.hull - Max(0, enemy_damage' - player.shields))
               /\ player'.shields = damage_enemy(player, enemy_damage').shields
               /\ player'.hull = Max(0, damage_enemy(player, enemy_damage').hull)]_vars

\* C5: an enemy hit larger than the player's shields and hull together
C5_Witness ==
    pc = "regen" /\ enemy_damage > 0 /\ player.hull = 0 /\ player.shields = 0

C7_MissConsumesNothing ==
    [][(WeaponStep /\ attack_roll' <= 2) =>
          /\ UNCHANGED <<player_ammo, player_power, enemy>>
          /\ pc' = "volley"
          /\ idx' = idx + 1]_vars

\* C7: a module has just misfired
C7_Witness == shot = "misfired" /\ attack_roll = 2

\* C8: on a roll of 20 the raw damage is trunc(s * 1.8), on a roll of 3..19
\* it is s, where s is a sample of the module's damage range; a shot that
\* fires applies that raw damage times the enemy's multiplier.
C8_CriticalDamage ==
    [][WeaponStep =>
          LET mod == NextModule
              m   == multiplier(enemy, mod.damage_type)
          IN  /\ sampled' \in mod.damage[1]..mod.damage[2]
              /\ (attack_roll' = 20 => damage' = (sampled' * 18) \div 10)
              /\ (attack_roll' \in 3..19 => damage' = sampled')
              /\ (shot' = "fired" =>
                     (enemy.shields + enemy.hull) - (enemy'.shields + enemy'.hull)
                         = (damage' * m) \div 10)]_vars

\* C8: a critical shot has fired
C8_Witness == shot = "fired" /\ attack_roll = 20 /\ damage > sampled

\* C9: the end-of-turn regeneration changes neither power grid nor ammo in a
\* turn in which a hull reached <= 0 or a retreat succeeded.
C9_RegenOnlyWhileActive ==
    [][(RegenStep /\ (enemy.hull <= 0 \/ player.hull <= 0 \/ RetreatLogged))
          => (player_power' = player_power /\ player_ammo' = player_ammo)]_vars

\* C10: the end-of-turn regeneration sets the power grid to
\* min(p + max(3, v div 2), c) and changes ammo by 0 or +1.
C10_RegenFormula ==
    [][RegenStep =>
          LET v    == IF "speed" \in DOMAIN ship_stats THEN ship_stats.speed ELSE 5
              gain == IF v \div 2 > 3 THEN v \div 2 ELSE 3
              c    == ship_stats.power_grid
          IN  /\ player_power' = IF player_power + gain < c
                                    THEN player_power + gain ELSE c
              /\ player_ammo' \in {player_ammo, player_ammo + 1}]_vars

\* C10: a regeneration of 4 (speed 8) below the cap of 30
C10_Witness ==
    pc = "loop" /\ turn = 2 /\ ship_stats.power_grid = 30 /\ player_power = 14

-----------------------------------------------------------------------------
\* C11: in every reachable state of a combat session the player's power grid
\* is an integer in 0..140, whatever actions and regeneration steps led to it.
C11_PowerGridRange == player_power \in 0..140

\* an emergency boost that met the ceiling
C11_Witness == "emergency_power" \in battle_log /\ player_power = 140

-----------------------------------------------------------------------------
\* C12: when the session has ended, the saved player record holds the
\* session's final hull, shields, credits and ammo; the saved ammo equals the
\* ammo count the session ended with.
C12_SessionWrittenBack ==
    pc = "done"
        => /\ saved.hull = player.hull
           /\ saved.shields = player.shields
           /\ saved.credits = player.credits
           /\ saved.ammo = player_ammo

-----------------------------------------------------------------------------
\* the names the registry defines with type "weapon" (modules.py:20-51)
WeaponNames == {"Pulse Laser", "Mass Driver", "Plasma Cannon", "Beam Lance"}

\* the weapon entries among the first i - 1 installed modules
WeaponsBefore(i) ==
    Cardinality({j \in 1..Len(modules) : j < i /\ modules[j] \in WeaponNames})

\* a weapon of this volley has failed its resource check
RejectedEarlier ==
    "insufficient_ammo" \in battle_log \/ "insufficient_power" \in battle_log

\* the module the volley is about to attempt can pay the cost the check looks at
NextAffordable ==
    IF NextModule.ammo_use > 0 THEN player_ammo >= NextModule.ammo_use
    ELSE IF NextModule.power_use > 0 THEN player_power >= NextModule.power_use
    ELSE TRUE

\* C13: a weapon that fails its resource check does not stop the volley:
\* every weapon entry of the installed list is rolled for (the volley ends
\* only behind the last entry, with as many attempts as there are weapons),
\* and a weapon attempted after a rejection fires exactly when its own roll
\* is above 2 and its own resource check passes.
C13_VolleyContinues ==
    /\ [](pc = "volley"
            => /\ idx \in 1..(Len(modules) + 1)
               /\ used_modules = WeaponsBefore(idx))
    /\ [][(pc = "volley" /\ idx <= Len(modules) /\ RejectedEarlier)
            => /\ pc' = "volley"
               /\ idx' = idx + 1
               /\ modules[idx] \in WeaponNames
                   => /\ WeaponStep
                      /\ attack_roll' \in 1..20
                      /\ (shot' = "fired") <=> (attack_roll' > 2 /\ NextAffordable)]_vars

\* a weapon fired after another weapon of the volley ran out of ammo
C13_Witness ==
    pc = "volley" /\ shot = "fired" /\ "insufficient_ammo" \in battle_log

-----------------------------------------------------------------------------
-----------------------------------------------------------------------------
\* the names the registry defines, with the names installed on the ship
ModuleNames == DOMAIN MODULES \cup {modules[j] : j \in 1..Len(modules)}

\* C15 as stated: no weapon module of the registry has both ammo_use > 0
\* and power_use > 0.
C15_SingleCost ==
    \A n \in ModuleNames :
        LET mod == get_module(n)
        IN  is_weapon(mod) => ~(mod.ammo_use > 0 /\ mod.power_use > 0)

\* C15, amended: every weapon module of the registry has power_use > 0; the
\* energy weapons have ammo_use = 0 and the kinetic and blast weapons have
\* ammo_use > 0 as well, so these have both cost fields non-zero.
C15_CostsByDamageType ==
    \A n \in ModuleNames :
        LET mod == get_module(n)
        IN  is_weapon(mod)
                => /\ mod.power_use > 0
                   /\ mod.damage_type = "energy" => mod.ammo_use = 0
                   /\ mod.damage_type \in {"kinetic", "blast"} => mod.ammo_use > 0

\* the volley is about to attempt a weapon with both costs non-zero
C15_Witness ==
    /\ pc = "volley" /\ idx \in 1..Len(modules)
    /\ modules[idx] \in WeaponNames
    /\ NextModule.ammo_use > 0 /\ NextModule.power_use > 0

-----------------------------------------------------------------------------
\* no installed module is a weapon of the registry
NoWeaponInstalled == \A j \in 1..Len(modules) : modules[j] \notin WeaponNames

\* C16: an Attack with no installed weapon deals no damage and changes no
\* resource: from the choice of the action to the end of the volley the
\* enemy's shields and hull, the ammo and the power grid stay as they were,
\* and the volley ends with the "no weapons" line.
C16_NoWeaponNoEffect ==
    [][(NoWeaponInstalled /\ (pc = "volley" \/ pc' = "volley"))
          => /\ UNCHANGED <<enemy, player_ammo, player_power>>
             /\ (pc = "volley" /\ pc' # "volley") => "no_weapons" \in battle_log']_vars

\* such a volley has ended
C16_Witness ==
    NoWeaponInstalled /\ pc = "enemy_turn" /\ "no_weapons" \in battle_log

-----------------------------------------------------------------------------
\* C17: an installed name that the registry does not know, or that names a
\* module that is no weapon, is passed over: the step that passes it keeps
\* the volley going and leaves the enemy, the ammo, the power grid, the
\* attempts counted, the rolls drawn and the log as they were, so the rest of
\* the volley runs as it would without that entry.
C17_EntrySkipped ==
    [][(pc = "volley" /\ idx <= Len(modules) /\ modules[idx] \notin WeaponNames)
          => /\ pc' = "volley"
             /\ idx' = idx + 1
             /\ UNCHANGED <<enemy, player, player_ammo, player_power, battle_log,
                            used_modules, attack_roll, sampled, damage, applied,
                            shot, result>>]_vars

\* a weapon fired behind a utility module and a name the registry does not know
C17_Witness ==
    /\ pc = "volley" /\ shot = "fired" /\ idx = 4
    /\ modules[1] \notin WeaponNames
    /\ modules[2] \notin DOMAIN MODULES
    /\ used_modules = 1

-----------------------------------------------------------------------------
\* C18: an input that names no action uses up the turn with no effect: the
\* player step changes neither ammo, power grid, enemy hull nor enemy
\* shields, and the enemy, being alive, attacks in that turn.
C18_SkippedTurn ==
    [][/\ (pc = "menu" /\ "turn_skipped" \in battle_log')
            => /\ UNCHANGED <<player_ammo, player_power, enemy>>
               /\ pc' = "enemy_turn"
       /\ (pc = "enemy_turn" /\ "turn_skipped" \in battle_log)
            => (enemy.hull > 0 /\ EnemyAttackStep)]_vars

\* the enemy has attacked in a skipped turn
C18_Witness ==
    pc = "regen" /\ "turn_skipped" \in battle_log /\ enemy_roll # 0

-----------------------------------------------------------------------------
\* C19: a failed retreat changes no combat state (ammo, power grid, enemy
\* hull and shields), the enemy attacks in the same turn, and the session is
\* still active when the turn ends, with the loop going on unless the
\* player's hull is at 0 or below.
C19_FailedRetreat ==
    [][/\ (pc = "menu" /\ "retreat_failed" \in battle_log')
            => /\ UNCHANGED <<player_ammo, player_power, enemy>>
               /\ pc' = "enemy_turn"
       /\ (pc = "enemy_turn" /\ "retreat_failed" \in battle_log)
            => EnemyAttackStep
       /\ (pc = "regen" /\ "retreat_failed" \in battle_log)
            => /\ pc' = "loop"
               /\ Outcome' = "Active"
               /\ loop_continues' <=> player'.hull > 0]_vars

\* the enemy has attacked after a failed retreat and the player is alive
C19_Witness ==
    /\ pc = "regen" /\ "retreat_failed" \in battle_log
    /\ enemy_roll # 0 /\ player.hull > 0

-----------------------------------------------------------------------------
\* C20: emergency_power with a d20 roll >= 14 (14 included) takes the success
\* branch: the new power grid is min(140, p + b) for some b in 12..30, and
\* for p <= 140 it is at most 140 and at least p.
C20_EmergencySuccess ==
    (pc = "returned" /\ emergency.roll >= 14)
        => /\ battle_log = {"emergency_power"}
           /\ \E b \in 12..30 :
                 player_power = Min(140, emergency.power_grid + b)
           /\ emergency.power_grid <= 140
                 => (player_power <= 140 /\ player_power >= emergency.power_grid)

\* a roll of exactly 14 whose boost met the ceiling
C20_Witness ==
    /\ pc = "returned" /\ emergency.roll = 14
    /\ emergency.power_grid = 135 /\ player_power = 140

-----------------------------------------------------------------------------
\* C21: emergency_power with a d20 roll < 14 takes the failure branch: the
\* new power grid is max(0, p - q) for the penalty q it drew, q in 8..25,
\* with or without the "systems damaged" line, and the call changes nothing
\* else of the combat state.
C21_EmergencyFailure ==
    [][(pc = "emergency_power" /\ emergency'.roll < 14)
          => /\ battle_log' \in {{"overload"}, {"overload_damaged"}}
             /\ emergency'.amount \in 8..25
             /\ player_power' = Max(0, player_power - emergency'.amount)
             /\ UNCHANGED <<player, enemy, player_ammo, ship_stats, modules,
                            saved, result>>]_vars

\* a roll of 13 with the "systems damaged" line: the grid lost the penalty
\* and nothing more
C21_Witness ==
    /\ pc = "returned" /\ emergency.roll = 13
    /\ battle_log = {"overload_damaged"}
    /\ emergency.power_grid = 100 /\ emergency.amount = 8 /\ player_power = 92

-----------------------------------------------------------------------------
\* a scan was logged in the current turn
ScanLogged == "scan_failed" \in battle_log \/ "scan_results" \in battle_log

\* C22: a scan, failed or not, uses up the turn and nothing else: the step
\* leaves ammo, power grid and both combatants (hull, shields, weakness map)
\* as they were, and the enemy attacks in that turn.
C22_ScanOnlyLogs ==
    [][/\ (pc = "menu" /\ ScanLogged')
            => /\ UNCHANGED <<player_ammo, player_power, enemy, player>>
               /\ pc' = "enemy_turn"
       /\ (pc = "enemy_turn" /\ ScanLogged)
            => (enemy.hull > 0 /\ EnemyAttackStep)]_vars

\* the enemy has attacked in the turn of a failed scan
C22_Witness ==
    pc = "regen" /\ "scan_failed" \in battle_log /\ enemy_roll # 0

-----------------------------------------------------------------------------
\* C23: an enemy attack whose d20 roll is <= 3 is a miss: the player's
\* shields and hull are unchanged by that attack.
C23_EnemyMiss ==
    [][(EnemyAttackStep /\ enemy_roll' <= 3)
          => (PlayerUntouched /\ enemy_damage' = 0)]_vars

\* the enemy rolled exactly 3
C23_Witness ==
    pc = "regen" /\ enemy_roll = 3 /\ "enemy_missed" \in battle_log

-----------------------------------------------------------------------------
\* C24: the enemy attacks at most once in a turn and only after the player's
\* action of that turn has resolved; with a roll > 3 the damage is a sample s
\* of the enemy's damage range, (s * 18) div 10 when the roll is 20, with no
\* weakness multiplier, taken from the player's shields first and then from
\* the hull (which stops at 0).
C24_EnemyAttackOnce ==
    /\ [](enemy_roll # 0 => pc = "regen")
    /\ [][EnemyAttackStep
            => /\ enemy_roll = 0
               /\ battle_log # {} /\ idx = 0
               /\ pc' = "regen"
               /\ enemy_roll' > 3
                   => /\ \E s \in enemy.damage_range[1]..enemy.damage_range[2] :
                            enemy_damage' = IF enemy_roll' = 20 THEN (s * 18) \div 10 ELSE s
                      /\ player'.shields = Max(0, player.shields - enemy_damage')
                      /\ player'.hull =
                            Max(0, player.hull - Max(0, enemy_damage' - player.shields))]_vars

\* a critical hit of the enemy that went through the shields
C24_Witness ==
    /\ pc = "regen" /\ enemy_roll = 20
    /\ {"enemy_crit", "dealt_to_shields", "dealt_to_hull"} \subseteq battle_log

-----------------------------------------------------------------------------
\* C25: the player's credits grow by a reward in 150..400 when the session
\* has ended in a victory, and in every other case (the session still runs,
\* it ended in a defeat, the player had retreated) they are what they were
\* at the start.
C25_RewardOnlyOnVictory ==
    IF pc = "done" /\ result = "True" /\ ~retreated
    THEN player.credits - StartCredits \in 150..400
    ELSE player.credits = StartCredits

-----------------------------------------------------------------------------
\* the enemy's weakness multiplier for the module about to fire, in tenths:
\* 10 when the map does not name the damage type
NextWeakness ==
    IF NextModule.damage_type \in DOMAIN enemy.weakness
    THEN enemy.weakness[NextModule.damage_type]
    ELSE 10

\* C26: a shot that hits and passes its resource check with raw damage r
\* (after the critical factor) has the effective damage floor(r * m), m the
\* enemy's weakness multiplier for the damage type, 1.0 when the map does not
\* name it; the enemy's shields lose what they hold of it and the hull the
\* rest, so shields plus hull fall by exactly that amount.
C26_EffectiveDamage ==
    [][(WeaponStep /\ shot' = "fired")
          => LET e == (damage' * NextWeakness) \div 10
                 to_shields == IF e < enemy.shields THEN e ELSE enemy.shields
             IN  /\ applied' = e
                 /\ enemy'.shields = enemy.shields - to_shields
                 /\ enemy'.hull = enemy.hull - (e - to_shields)
                 /\ enemy'.shields >= 0]_vars

\* a shot with a multiplier above 1.0 that emptied the shields and reached the hull
C26_Witness ==
    /\ pc = "volley" /\ shot = "fired" /\ applied > damage
    /\ {"deals_to_shields", "deals_to_hull"} \subseteq battle_log
    /\ enemy.shields = 0

-----------------------------------------------------------------------------
\* C27: no step of a session (player action, enemy attack, regeneration,
\* resolution) changes the armor of the player or of the enemy.
C27_ArmorUntouched ==
    [][player'.armor = player.armor /\ enemy'.armor = enemy.armor]_vars

\* a session has ended after damage to both hulls, with the armor it started with
C27_Witness ==
    /\ pc = "done"
    /\ modules = <<"Plasma Cannon", "Mass Driver">>
    /\ player.hull \in 1..9 /\ player.armor = NewPlayer.armor
    /\ enemy.hull <= 0 /\ enemy.armor = RaiderTemplate.armor

-----------------------------------------------------------------------------
\* C28: a turn is under way only while both hulls are > 0 and no retreat has
\* succeeded; the session has not ended while both hulls are > 0 and no
\* retreat has succeeded; once ended, it reports Defeat exactly when
\* player.hull <= 0 and Victory exactly when enemy.hull <= 0 and
\* player.hull > 0.
C28_TurnsAndOutcome ==
    /\ pc = "menu" => (enemy.hull > 0 /\ player.hull > 0 /\ ~retreated)
    /\ pc = "done"
          => /\ ~(enemy.hull > 0 /\ player.hull > 0 /\ ~retreated)
             /\ (Outcome = "Defeat") <=> (player.hull <= 0)
             /\ (Outcome = "Victory") <=> (enemy.hull <= 0 /\ player.hull > 0)

-----------------------------------------------------------------------------
\* C29: in no state of a session that started with both hulls > 0 are both
\* player.hull <= 0 and enemy.hull <= 0.
C29_OneSideDead == ~(player.hull <= 0 /\ enemy.hull <= 0)

\* the session ended with the player destroyed and the enemy damaged but alive
C29_Witness ==
    /\ pc = "done" /\ player.hull <= 0
    /\ enemy.shields = 0 /\ enemy.hull \in 1..19

-----------------------------------------------------------------------------
\* C30: the end-of-turn regeneration never lowers the power grid.
C30_RegenNeverLowers ==
    [][RegenStep => player_power' >= player_power]_vars

\* C31: every combat session eventually terminates, whatever the player
\* chooses each turn, when the enemy's attack roll is above 3 infinitely
\* often (its damage is at least 1 in every template)
C31_Terminates == <>(pc = "done")

\* a pilot without weapons has been shot down after more turns than TurnCap - 1
C31_Witness ==
    /\ pc = "done"
    /\ NoWeaponInstalled
    /\ turn = TurnCap
    /\ player.hull = 0
    /\ enemy.hull = RaiderTemplate.hull

-----------------------------------------------------------------------------
\* C32: in one volley every installed module is gone through once, in
\* installation order, and every weapon among them is rolled for, also when
\* an earlier weapon of the volley has brought the enemy's hull to 0 or
\* below: such a later weapon fires exactly when its roll is above 2 and its
\* resources suffice, and a shot that fires pays its ammo or power and
\* lowers the enemy's hull further.
C32_WholeVolley ==
    /\ [](pc = "volley"
            => /\ idx \in 1..(Len(modules) + 1)
               /\ used_modules = WeaponsBefore(idx))
    /\ [][(pc = "volley" /\ idx <= Len(modules))
            => /\ pc' = "volley"
               /\ idx' = idx + 1
               /\ (modules[idx] \in WeaponNames) <=> WeaponStep]_vars
    /\ [][(pc = "volley" /\ idx <= Len(modules) /\ enemy.hull <= 0
              /\ modules[idx] \in WeaponNames)
            => /\ (shot' = "fired") <=> (attack_roll' > 2 /\ NextAffordable)
               /\ shot' = "fired"
                   => /\ enemy'.hull < enemy.hull
                      /\ \/ player_ammo' < player_ammo
                         \/ player_power' < player_power]_vars

\* the second Mass Driver has fired at an enemy the first one had destroyed
C32_Witness ==
    /\ pc = "volley" /\ idx = 4
    /\ modules = <<"Mass Driver", "Basic Mining Drill", "Mass Driver">>
    /\ shot = "fired" /\ applied > 0
    /\ enemy.hull + applied <= 0
    /\ player_ammo = 0

-----------------------------------------------------------------------------
\* C33: within a session no step raises the hull or the shields of either
\* combatant; the player's hull is never negative and no shields are; the
\* enemy's hull is not clamped and may be negative when the session ends.
C33_NeverRepaired ==
    /\ [](player.hull >= 0 /\ player.shields >= 0 /\ enemy.shields >= 0)
    /\ [][/\ player'.hull <= player.hull
          /\ player'.shields <= player.shields
          /\ enemy'.hull <= enemy.hull
          /\ enemy'.shields <= enemy.shields]_vars

\* the session has ended with the enemy's hull below 0
C33_Witness ==
    /\ pc = "done"
    /\ enemy.hull < 0
    /\ enemy.shields = 0
    /\ player.hull > 0

-----------------------------------------------------------------------------
\* the installed Shield Boosters
Boosters == Cardinality({j \in 1..Len(modules) : modules[j] = "Shield Booster"})

\* C34: every call of get_player_ship (by accept_mission, and by the set-up
\* of each combat session before any damage is dealt) adds 15 to the
\* player's shields for each installed Shield Booster; the session saves the
\* record with what is left of them, so the stored shields grow from call to
\* call without a ceiling.
C34_ShieldsAccumulate ==
    /\ [][mission'.calls = mission.calls + 1
            => /\ player'.shields = player.shields + 15 * Boosters
               /\ player'.hull = player.hull
               /\ saved' = saved]_vars
    /\ [][(pc = "engaged" /\ pc' # "engaged")
            => /\ saved' = player'
               /\ player'.shields <= player.shields]_vars
    /\ [](pc = "engaged" => player.shields >= saved.shields + 15 * Boosters)

\* two Shield Boosters and three calls: 90 above the shields of a new player
C34_Witness ==
    /\ mission.calls = 3
    /\ Boosters = 2
    /\ saved.shields = NewPlayer.shields + 90

-----------------------------------------------------------------------------
\* C35: the engagements of a contract run one after another and none is
\* started after one that left the player's hull at 0 or below: the contract
\* then fails and nothing is credited. The contract is completed, and its
\* reward credited and saved, only when all its engagements were fought,
\* each ended with the enemy's hull at 0 or below, and the player's hull is
\* above 0; outside an engagement the credits change in no other step.
C35_ContractLoop ==
    /\ [](pc \in {"contract", "engaged", "lost"}
            => /\ mission.fought <= mission.enemies
               /\ pc = "engaged" => mission.fought < mission.enemies)
    /\ [][(pc = "contract" /\ pc' = "engaged")
            => (mission.fought = 0 \/ player.hull > 0)]_vars
    /\ [][(pc = "engaged" /\ pc' # "engaged" /\ player'.hull <= 0)
            => pc' = "lost"]_vars
    /\ [][pc = "lost"
            => /\ mission'.status = "failed"
               /\ player'.credits = player.credits
               /\ pc' = "board"]_vars
    /\ [][(mission'.status = "completed" /\ mission.status # "completed")
            => /\ mission.fought = mission.enemies
               /\ mission.destroyed = mission.enemies
               /\ player.hull > 0
               /\ player'.credits = player.credits + mission.reward
               /\ saved' = player']_vars
    /\ [][(pc # "engaged" /\ player'.credits # player.credits)
            => (mission.status = "running" /\ mission'.status = "completed")]_vars

\* a contract with two enemies has been completed and paid
C35_Witness ==
    /\ pc = "board"
    /\ mission.status = "completed"
    /\ mission.enemies = 2 /\ mission.destroyed = 2
    /\ player.hull > 0
    /\ player.credits >= StartCredits + mission.reward + 300
    /\ saved = player

-----------------------------------------------------------------------------
\* C36: after any sequence of add_cargo and remove_cargo calls with positive
\* quantities the total cargo is at most the cargo capacity and every stored
\* item has a quantity above 0; an add_cargo that would exceed the capacity
\* and a remove_cargo of more than is held return False, and a call that
\* returns False leaves the cargo as it was.
C36_CargoWithinCapacity ==
    /\ [](/\ sum_values(cargo) <= get_cargo_capacity(ship_stats, modules)
          /\ \A item \in DOMAIN cargo : cargo[item] > 0)
    /\ [][LET call == cargo_call'
              cap  == get_cargo_capacity(ship_stats, modules)
          IN  /\ call.qty > 0
              /\ (call.op = "add_cargo" /\ sum_values(cargo) + call.qty > cap)
                     => ~call.ok
              /\ (call.op = "remove_cargo" /\ call.qty > held(cargo, call.item))
                     => ~call.ok
              /\ ~call.ok => cargo' = cargo
              /\ (call.ok /\ call.op = "add_cargo")
                     => sum_values(cargo') = sum_values(cargo) + call.qty
              /\ (call.ok /\ call.op = "remove_cargo")
                     => sum_values(cargo') = sum_values(cargo) - call.qty]_vars

\* a hold of 27 (2 and a Cargo Pod) is full with two items, and an add was refused
C36_Witness ==
    /\ cargo_call.op = "add_cargo" /\ ~cargo_call.ok
    /\ get_cargo_capacity(ship_stats, modules) = 27
    /\ sum_values(cargo) = 27
    /\ DOMAIN cargo = Items

====
